---------------------------- MODULE Spec2Model ----------------------------
(* A model of lab's batching and dispatch utilities (src/lab/util.py) and   *)
(* of the batched triangular solve built on them                            *)
(* (src/lab/numpy/linear_algebra.py).  Tuples are sequences, `None` is the  *)
(* empty optional <<>> and an integer k the optional <<k>>.  A call either  *)
(* returns a value or raises; both outcomes are records.                    *)
EXTENDS Integers, Sequences, FiniteSets, TLC

VARIABLES
  pc,            \* position of the call in progress
  ret,           \* outcome of the finished call: Returned(v) or Raised(e)
  a_rank, axis, negative,                    \* resolve_axis: B.rank(a), axis, negative
  shapes,                                    \* _common_shape: *shapes
  index, batch_shape,                        \* _translate_index / batch_computation
  xs, ranks, batch_shapes, indices, batches, \* batch_computation locals
  calls, translated,                         \* kernel invocations so far, last slices taken
  promote, promote_from, impls, args,        \* abstract(...), registry, *args
  types_before, types_after, promoted, retries

vars == <<pc, ret, a_rank, axis, negative, shapes, index, batch_shape, xs, ranks,
          batch_shapes, indices, batches, calls, translated, promote, promote_from,
          impls, args, types_before, types_after, promoted, retries>>

axisVars  == <<a_rank, axis, negative>>
shapeVars == <<shapes>>
batchVars == <<xs, ranks, batch_shapes, indices, batches, calls, translated>>
dispVars  == <<promote, promote_from, impls, args, types_before, types_after,
               promoted, retries>>

-----------------------------------------------------------------------------
(* Bounds of the model.                                                     *)
MaxDim == 2      \* dimension sizes range over 0..MaxDim
MaxLen == 2      \* shapes and indices have at most MaxLen dimensions
MaxRank == 3     \* resolve_axis: tensor ranks range over 0..MaxRank
MaxArgs == 2     \* abstract: a call passes at most MaxArgs positional arguments
MaxRetries == 3  \* abstract: the retries of one call are counted up to MaxRetries
KernelDim == 2   \* batch_computation: the size of every kernel (non-batch) dimension

-----------------------------------------------------------------------------
(* Python values and built-ins.                                             *)
None == <<>>
Some(k) == <<k>>

Returned(v) == [raised |-> "", value |-> v]
Raised(e) == [raised |-> e, value |-> <<>>]

\* The errors the code raises, named by type and message.
AxisError == "ValueError: Axis cannot be resolved for tensor"
ReconcileError == "RuntimeError: Cannot reconcile running common shape"
TranslateError == "RuntimeError: Cannot translate index to batch shape"
IndexError == "IndexError: index is out of bounds"
StackError == "ValueError: need at least one array to stack"
ReshapeError == "ValueError: cannot reshape array"
BroadcastError == "ValueError: shape mismatch"
PromoteBothError == "ValueError: Specify either promote or promote_from"
NotFoundLookupError == "NotFoundLookupError"
PromotionTypeError == "TypeError: No promotion rule"

Max(a, b) == IF a >= b THEN a ELSE b
Min(a, b) == IF a <= b THEN a ELSE b

\* s[b:] with Python's rules: a negative b counts from the end, and -0 is 0.
SliceFrom(s, b) ==
  LET n == Len(s)
      start == IF b < 0 THEN Max(n + b, 0) ELSE Min(b, n)
  IN SubSeq(s, start + 1, n)

\* s[:e] with Python's rules: a negative e counts from the end, and -0 is 0.
SliceTo(s, e) ==
  LET n == Len(s)
      stop == IF e < 0 THEN Max(n + e, 0) ELSE Min(e, n)
  IN SubSeq(s, 1, stop)

\* (1,) * n
Ones(n) == [i \in 1..n |-> 1]

\* All tuples of at most n components drawn from S.
TuplesUpTo(S, n) == UNION {[1..k -> S] : k \in 0..n}

Dims == 0..MaxDim
Shapes == TuplesUpTo(Dims, MaxLen)

-----------------------------------------------------------------------------
(* resolve_axis                                                             *)
resolve_axis_no_upper_check(rank_a, ax, neg) ==
  IF ax = None THEN Returned(None)
  ELSE LET given_axis == ax[1] IN
    IF ~neg
    THEN LET a1 == IF given_axis < 0 THEN given_axis + rank_a ELSE given_axis
         IN IF ~(0 <= a1 /\ a1 <= rank_a) THEN Raised(AxisError)
            ELSE Returned(Some(a1))
    ELSE LET a1 == IF given_axis >= 0 THEN given_axis - rank_a ELSE given_axis
         IN IF ~(-rank_a <= a1 /\ a1 <= 0) THEN Raised(AxisError)
            ELSE Returned(Some(a1))

resolve_axis(rank_a, ax, neg) ==
  IF ax = None THEN Returned(None)
  ELSE LET given_axis == ax[1] IN
    IF ~neg
    THEN LET a1 == IF given_axis < 0 THEN given_axis + rank_a ELSE given_axis
         IN IF ~(0 <= a1 /\ a1 < rank_a) THEN Raised(AxisError)
            ELSE Returned(Some(a1))
    ELSE LET a1 == IF given_axis >= 0 THEN given_axis - rank_a ELSE given_axis
         IN IF ~(-rank_a <= a1 /\ a1 < 0) THEN Raised(AxisError)
            ELSE Returned(Some(a1))

-----------------------------------------------------------------------------
(* _common_shape                                                            *)

\* One step of the zip loop: the reconciled dimension, or None when the
\* code raises.
ReconcileDim_keep_first(d1, d2) ==
  IF d1 = d2 THEN Some(d1)
  ELSE IF d1 = 1 THEN Some(d1)
  ELSE IF d2 = 1 THEN Some(d1)
  ELSE None

ReconcileDim_never_raises(d1, d2) ==
  IF d1 = d2 THEN Some(d1)
  ELSE IF d1 = 1 THEN Some(d2)
  ELSE Some(d1)

ReconcileDim(d1, d2) ==
  IF d1 = d2 THEN Some(d1)
  ELSE IF d1 = 1 THEN Some(d2)
  ELSE IF d2 = 1 THEN Some(d1)
  ELSE None

\* for d1, d2 in zip(common_shape, shape): ...
RECURSIVE ResolveShapes(_, _, _)
ResolveShapes(common_shape, shape, new_common_shape) ==
  IF common_shape = <<>> \/ shape = <<>> THEN Returned(new_common_shape)
  ELSE LET d == ReconcileDim(Head(common_shape), Head(shape)) IN
    IF d = None THEN Raised(ReconcileError)
    ELSE ResolveShapes(Tail(common_shape), Tail(shape), new_common_shape \o d)

\* for shape in shapes[1:]: ...
RECURSIVE CommonShapeLoop(_, _)
CommonShapeLoop(common_shape, rest) ==
  IF rest = <<>> THEN Returned(common_shape)
  ELSE LET diff == Len(common_shape) - Len(Head(rest))
           shape == Ones(Max(diff, 0)) \o Head(rest)
           padded == Ones(Max(-diff, 0)) \o common_shape
           r == ResolveShapes(padded, shape, <<>>)
       IN IF r.raised # "" THEN r ELSE CommonShapeLoop(r.value, Tail(rest))

_common_shape(shps) == CommonShapeLoop(shps[1], SliceFrom(shps, 1))

\* np.broadcast_shapes, which broadcast_shapes forwards to: every column of
\* the right-aligned shapes holds at most one size other than 1.
np_broadcast_shapes(shps) ==
  LET n == CHOOSE m \in 0..MaxLen + 1 :
             /\ \A i \in 1..Len(shps) : Len(shps[i]) <= m
             /\ \E i \in 1..Len(shps) : Len(shps[i]) = m
      DimAt(s, j) == IF j > n - Len(s) THEN s[j - (n - Len(s))] ELSE 1
      Col(j) == {DimAt(shps[i], j) : i \in 1..Len(shps)} \ {1}
  IN IF \E j \in 1..n : Cardinality(Col(j)) > 1
     THEN Raised(BroadcastError)
     ELSE Returned([j \in 1..n |->
            IF Col(j) = {} THEN 1 ELSE CHOOSE d \in Col(j) : TRUE])

-----------------------------------------------------------------------------
(* _translate_index                                                         *)

\* One step of the zip loop: the translated component, or None when the
\* code raises.
TranslateDim_keep(i, s) ==
  IF i < s THEN Some(i)
  ELSE IF s = 1 THEN Some(i)
  ELSE None

TranslateDim(i, s) ==
  IF i < s THEN Some(i)
  ELSE IF s = 1 THEN Some(0)
  ELSE None

\* for i, s in zip(index, batch_shape): ...
RECURSIVE TranslateLoop(_, _, _)
TranslateLoop(idx, bshape, translated_index) ==
  IF idx = <<>> \/ bshape = <<>> THEN Returned(translated_index)
  ELSE LET t == TranslateDim(Head(idx), Head(bshape)) IN
    IF t = None THEN Raised(TranslateError)
    ELSE TranslateLoop(Tail(idx), Tail(bshape), translated_index \o t)

_translate_index_leading(idx, bshape) ==
  TranslateLoop(SliceTo(idx, Len(bshape)), bshape, <<>>)

_translate_index(idx, bshape) ==
  TranslateLoop(SliceFrom(idx, -Len(bshape)), bshape, <<>>)


-----------------------------------------------------------------------------
(* batch_computation.  A tensor argument is known by its position in xs and *)
(* its shape; a slice of it by the index it was taken at.                   *)

\* The kernel rank triangular_solve declares for both of its arguments.
MatrixRank == 2

\* x[t] for the i-th argument x, t a tuple of integers.
GetItem(i, shape, t) ==
  IF \/ Len(t) > Len(shape)
     \/ \E j \in 1..Min(Len(t), Len(shape)) : t[j] >= shape[j] \/ t[j] < -shape[j]
  THEN Raised(IndexError)
  ELSE Returned([arg |-> i,
                 at |-> [j \in 1..Len(t) |-> IF t[j] < 0 THEN t[j] + shape[j] ELSE t[j]],
                 shape |-> SliceFrom(shape, Len(t))])

\* The kernel, applied to the slices in argument order: its result is known
\* by the slices it was given and has the shape of the last of them, as the
\* solution of a triangular system has the shape of its right-hand side.
_triangular_solve(slices) ==
  [f |-> slices, shape |-> slices[Len(slices)].shape]

RECURSIVE Prod(_)
Prod(s) == IF s = <<>> THEN 1 ELSE Head(s) * Prod(Tail(s))

\* Row r of np.indices(shape).transpose(perm).reshape(-1, len(shape)):
\* component j of the r-th coordinate in C order.
Unravel_fortran(r, shape) ==
  [j \in 1..Len(shape) |-> (r \div Prod(SubSeq(shape, 1, j - 1))) % shape[j]]

Unravel(r, shape) ==
  [j \in 1..Len(shape) |-> (r \div Prod(SubSeq(shape, j + 1, Len(shape)))) % shape[j]]

\* The list of indices the loop runs over.
Indices(bshape) ==
  IF Len(bshape) = 0 THEN << <<>> >>
  ELSE [r \in 1..Prod(bshape) |-> Unravel(r - 1, bshape)]

\* [B.shape(x)[:-rank] for x, rank in zip(xs, ranks)]
BatchShapes(xs_, ranks_) ==
  [i \in 1..Min(Len(xs_), Len(ranks_)) |-> SliceTo(xs_[i], -ranks_[i])]

\* [x[_translate_index(index, s)] for x, s in zip(xs, batch_shapes)]: the
\* slices, or the first error raised while taking them.
SliceArgs(xs_, batch_shapes_, idx) ==
  LET n == Min(Len(xs_), Len(batch_shapes_))
      Tr(i) == _translate_index(idx, batch_shapes_[i])
      Sl(i) == GetItem(i, xs_[i], Tr(i).value)
      Bad(i) == Tr(i).raised # "" \/ Sl(i).raised # ""
  IN IF \E i \in 1..n : Bad(i)
     THEN LET i == CHOOSE k \in 1..n : Bad(k) /\ \A j \in 1..(k - 1) : ~Bad(j)
          IN IF Tr(i).raised # "" THEN Tr(i) ELSE Sl(i)
     ELSE Returned([i \in 1..n |-> Sl(i).value])

\* B.stack of the batches along axis 0: the results side by side along a new leading
\* axis; stacking nothing fails.
Stack(bs) ==
  IF bs = <<>> THEN Raised(StackError)
  ELSE Returned([shape |-> <<Len(bs)>> \o bs[1].shape, blocks |-> bs])

\* B.reshape of res to batch_shape + B.shape(res)[1:]: the same data in C
\* order under the new shape.
Reshape(res, shape) ==
  IF Prod(shape) # Prod(res.shape) THEN Raised(ReshapeError)
  ELSE Returned([shape |-> shape, blocks |-> res.blocks])

-----------------------------------------------------------------------------
(* Values of the variables a specification does not use.                    *)
AxisIdle == a_rank = 0 /\ axis = None /\ negative = FALSE
ShapeIdle == shapes = <<>>
IndexIdle == index = <<>> /\ batch_shape = <<>>
BatchIdle ==
  /\ xs = <<>> /\ ranks = <<>> /\ batch_shapes = <<>> /\ indices = <<>>
  /\ batches = <<>> /\ calls = <<>> /\ translated = <<>>
DispIdle ==
  /\ promote = None /\ promote_from = None /\ impls = {} /\ args = <<>>
  /\ types_before = <<>> /\ types_after = <<>> /\ promoted = {} /\ retries = 0

-----------------------------------------------------------------------------
(* Calls of resolve_axis(a, axis, negative).                                *)
AxisValues == {None} \cup {Some(k) : k \in -(MaxRank + 1)..(MaxRank + 1)}

InitAxis ==
  /\ pc = "resolve_axis"
  /\ ret = Returned(None)
  /\ a_rank \in 0..MaxRank
  /\ axis \in AxisValues
  /\ negative \in BOOLEAN
  /\ ShapeIdle /\ IndexIdle /\ BatchIdle /\ DispIdle

ResolveAxis ==
  /\ pc = "resolve_axis"
  /\ ret' = resolve_axis(a_rank, axis, negative)
  /\ pc' = "done"
  /\ UNCHANGED <<axisVars, shapeVars, index, batch_shape, batchVars, dispVars>>

NextAxis == ResolveAxis

SpecAxis == InitAxis /\ [][NextAxis]_vars

-----------------------------------------------------------------------------
(* Calls of _common_shape with one, two or three shapes.                    *)
ShapeLists == UNION {[1..k -> Shapes] : k \in 1..3}

InitShape ==
  /\ pc = "_common_shape"
  /\ ret = Returned(<<>>)
  /\ shapes \in ShapeLists
  /\ AxisIdle /\ IndexIdle /\ BatchIdle /\ DispIdle

CommonShape ==
  /\ pc = "_common_shape"
  /\ ret' = _common_shape(shapes)
  /\ pc' = "done"
  /\ UNCHANGED <<axisVars, shapeVars, index, batch_shape, batchVars, dispVars>>

NextShape == CommonShape

SpecShape == InitShape /\ [][NextShape]_vars

-----------------------------------------------------------------------------
(* Calls of _translate_index(index, batch_shape): a coordinate with at      *)
(* least as many components as the target batch shape has dimensions.       *)
Coordinates == TuplesUpTo(0..MaxDim, MaxLen + 1)
TargetShapes == TuplesUpTo(0..MaxDim + 1, MaxLen)

InitIndex ==
  /\ pc = "_translate_index"
  /\ ret = Returned(<<>>)
  /\ index \in Coordinates
  /\ batch_shape \in TargetShapes
  /\ Len(index) >= Len(batch_shape)
  /\ AxisIdle /\ ShapeIdle /\ BatchIdle /\ DispIdle

TranslateIndex ==
  /\ pc = "_translate_index"
  /\ ret' = _translate_index(index, batch_shape)
  /\ pc' = "done"
  /\ UNCHANGED <<axisVars, shapeVars, index, batch_shape, batchVars, dispVars>>

NextIndex == TranslateIndex

SpecIndex == InitIndex /\ [][NextIndex]_vars

-----------------------------------------------------------------------------
(* C4: resolve_axis returns the representative of the axis in the requested *)
(* convention: None passes through; every k outside [-r, r) raises the      *)
(* axis-range error; in the positive convention 0 <= k < r is returned      *)
(* unchanged and k - r resolves to k; in the negative convention k >= 0 is  *)
(* returned as k - r and -r <= k < 0 unchanged.                             *)
C4_ResolveAxis ==
  pc = "done" =>
    IF axis = None THEN ret = Returned(None)
    ELSE LET k == axis[1] r == a_rank IN
      IF k < -r \/ k >= r THEN ret.raised = AxisError
      ELSE /\ ret.raised = ""
           /\ ret.value = Some(IF negative THEN (IF k >= 0 THEN k - r ELSE k)
                                           ELSE (IF k >= 0 THEN k ELSE k + r))

C4_Witness ==
  /\ pc = "done" /\ axis # None /\ negative /\ a_rank = 3
  /\ axis[1] = 2 /\ ret = Returned(Some(-1))

-----------------------------------------------------------------------------
(* C2: _common_shape returns exactly the NumPy broadcast shape of its       *)
(* arguments, and raises the reconciliation error exactly when NumPy        *)
(* broadcasting fails.                                                      *)
C2_CommonShapeIsNumPy ==
  pc = "done" =>
    LET np == np_broadcast_shapes(shapes) IN
      IF np.raised # "" THEN ret.raised = ReconcileError
      ELSE ret.raised = "" /\ ret.value = np.value

\* Shapes of different lengths, a size-1 dimension stretched, a size 0 kept.
C2_Witness ==
  /\ pc = "done" /\ shapes = <<<<1, 2>>, <<0, 1>>, <<2>>>>
  /\ ret = Returned(<<0, 2>>)

\* Two shapes are broadcast-compatible when their right-aligned dimensions
\* are pairwise equal or one of the two is 1.
PairCompatible(s, t) ==
  \A j \in 1..Min(Len(s), Len(t)) :
    LET d1 == s[Len(s) - j + 1] d2 == t[Len(t) - j + 1]
    IN d1 = d2 \/ d1 = 1 \/ d2 = 1

PairwiseCompatible(shps) ==
  \A i, j \in 1..Len(shps) : PairCompatible(shps[i], shps[j])

Orderings(n) == {p \in [1..n -> 1..n] : \A i, j \in 1..n : p[i] = p[j] => i = j}

(* C6: for pairwise broadcast-compatible shapes, _common_shape succeeds and *)
(* gives the same shape in every argument order and in every grouping.      *)
C6_CommonShapeCommAssoc ==
  (pc = "done" /\ PairwiseCompatible(shapes)) =>
    /\ ret.raised = ""
    /\ \A p \in Orderings(Len(shapes)) :
         LET q == [i \in 1..Len(shapes) |-> shapes[p[i]]] IN
           /\ _common_shape(q) = ret
           /\ Len(q) = 3 =>
                LET ab == _common_shape(<<q[1], q[2]>>)
                    bc == _common_shape(<<q[2], q[3]>>)
                IN /\ ab.raised = "" /\ bc.raised = ""
                   /\ _common_shape(<<ab.value, q[3]>>) = ret
                   /\ _common_shape(<<q[1], bc.value>>) = ret

C6_Witness ==
  /\ pc = "done" /\ shapes = <<<<2, 1>>, <<2>>, <<1, 1>>>>
  /\ PairwiseCompatible(shapes) /\ ret = Returned(<<2, 2>>)

-----------------------------------------------------------------------------
(* C3: _translate_index keeps the last len(batch_shape) components of the   *)
(* coordinate (none for an empty batch shape) and, for each, keeps an index *)
(* below the size, rewrites it to 0 when the size is 1, and otherwise       *)
(* raises the translation error.                                            *)
C3_TranslateIndex ==
  pc = "done" =>
    LET n == Len(batch_shape)
        Tl(j) == index[Len(index) - n + j]
    IN IF \E j \in 1..n : Tl(j) >= batch_shape[j] /\ batch_shape[j] # 1
       THEN ret.raised = TranslateError
       ELSE /\ ret.raised = ""
            /\ ret.value = [j \in 1..n |-> IF Tl(j) < batch_shape[j] THEN Tl(j) ELSE 0]

\* The empty target shape: index[-0:] is the whole index, zip pairs nothing.
C3_Witness ==
  /\ pc = "done" /\ batch_shape = <<>> /\ index = <<2, 0>> /\ ret = Returned(<<>>)

-----------------------------------------------------------------------------
(* Calls of batch_computation(f, xs, ranks) with the two-argument kernel of *)
(* triangular_solve.  Argument i has the leading dimensions bs[i] followed  *)
(* by ranks[i] kernel dimensions.                                           *)
InitBatch ==
  /\ pc = "batch_computation"
  /\ ret = Returned(<<>>)
  /\ \E bs \in [1..2 -> Shapes], rk \in [1..2 -> 0..MatrixRank] :
       /\ xs = [i \in 1..2 |-> bs[i] \o [j \in 1..rk[i] |-> KernelDim]]
       /\ ranks = rk
  /\ batch_shapes = <<>> /\ indices = <<>> /\ batches = <<>>
  /\ calls = <<>> /\ translated = <<>>
  /\ AxisIdle /\ ShapeIdle /\ IndexIdle /\ DispIdle

\* Lines 135-152: the batch shapes, their common shape, the list of indices.
BatchPrepare ==
  /\ pc = "batch_computation"
  /\ LET bss == BatchShapes(xs, ranks)
         cs == _common_shape(bss)
     IN /\ batch_shapes' = bss
        /\ IF cs.raised # ""
           THEN pc' = "raised" /\ ret' = cs /\ UNCHANGED <<batch_shape, indices>>
           ELSE /\ pc' = "loop"
                /\ batch_shape' = cs.value
                /\ indices' = Indices(cs.value)
                /\ UNCHANGED ret
  /\ UNCHANGED <<axisVars, shapeVars, index, xs, ranks, batches, calls, translated,
                 dispVars>>

\* Lines 156-159: one iteration of the loop over the indices.
BatchLoop ==
  /\ pc = "loop"
  /\ Len(batches) < Len(indices)
  /\ LET idx == indices[Len(batches) + 1]
         sl == SliceArgs(xs, batch_shapes, idx)
     IN /\ index' = idx
        /\ IF sl.raised # ""
           THEN pc' = "raised" /\ ret' = sl /\ UNCHANGED <<batches, calls, translated>>
           ELSE /\ batches' = Append(batches, _triangular_solve(sl.value))
                /\ calls' = Append(calls, idx)
                /\ translated' = [i \in 1..Len(sl.value) |-> sl.value[i].at]
                /\ UNCHANGED <<pc, ret>>
  /\ UNCHANGED <<axisVars, shapeVars, batch_shape, xs, ranks, batch_shapes, indices,
                 dispVars>>

\* Lines 162-163: stack the results and reshape.
BatchFinish ==
  /\ pc = "loop"
  /\ Len(batches) = Len(indices)
  /\ LET res == Stack(batches) IN
       IF res.raised # ""
       THEN pc' = "raised" /\ ret' = res
       ELSE LET out == Reshape(res.value,
                               batch_shape \o SliceFrom(res.value.shape, 1))
            IN ret' = out /\ pc' = IF out.raised # "" THEN "raised" ELSE "done"
  /\ UNCHANGED <<axisVars, shapeVars, index, batch_shape, batchVars, dispVars>>

NextBatch == BatchPrepare \/ BatchLoop \/ BatchFinish

SpecBatch == InitBatch /\ [][NextBatch]_vars

-----------------------------------------------------------------------------
(* Reading the claims on a call of batch_computation.                       *)

\* The coordinates of a shape.
CoordinatesOf(shape) ==
  {c \in [1..Len(shape) -> 0..MaxDim] : \A j \in 1..Len(shape) : c[j] < shape[j]}

\* The position of coordinate c in a C-ordered (row-major) tensor of the
\* given shape: the last component varies fastest.
RECURSIVE RavelC(_, _)
RavelC(c, shape) ==
  IF c = <<>> THEN 0
  ELSE Head(c) * Prod(Tail(shape)) + RavelC(Tail(c), Tail(shape))

\* The batch shape the contract gives argument i: its shape without its
\* last ranks[i] dimensions.
ContractBatchShape(i) == SubSeq(xs[i], 1, Len(xs[i]) - ranks[i])

\* The slice of argument i the contract pairs with coordinate c: right
\* aligned, a size-1 dimension read at 0.
ContractSlice(i, c, bs) ==
  [arg |-> i,
   at |-> [j \in 1..Len(bs) |-> IF bs[j] = 1 THEN 0 ELSE c[Len(c) - Len(bs) + j]],
   shape |-> SubSeq(xs[i], Len(bs) + 1, Len(xs[i]))]

(* C8: the batch shape of every argument is its shape with its last k       *)
(* dimensions removed, for every kernel rank 0 <= k <= rank(x); for k = 0   *)
(* it is the whole shape, for k = rank(x) it is empty.                      *)
C8_BatchShapeDropsLastK ==
  pc # "batch_computation" =>
    \A i \in 1..Len(xs) : batch_shapes[i] = ContractBatchShape(i)

(* C1: when the per-argument batch shapes are broadcast-compatible,         *)
(* batch_computation returns a tensor whose shape is the common batch shape *)
(* followed by the kernel's output shape and whose entry at every           *)
(* coordinate c is the kernel applied to the slices of the arguments at c.  *)
C1_BatchComputation ==
  LET bss == [i \in 1..Len(xs) |-> ContractBatchShape(i)] IN
  (pc \in {"done", "raised"} /\ PairwiseCompatible(bss)) =>
    /\ pc = "done"
    /\ LET common == np_broadcast_shapes(bss).value
           Expected(c) == _triangular_solve(
                            [i \in 1..Len(xs) |-> ContractSlice(i, c, bss[i])])
       IN /\ ret.value.shape = common \o Expected(common).shape
          /\ Len(ret.value.blocks) = Prod(common)
          /\ \A c \in CoordinatesOf(common) :
               ret.value.blocks[RavelC(c, common) + 1] = Expected(c)

(* C7: the kernel is invoked once per coordinate of the common batch shape, *)
(* in row-major order, and the results are stacked in that order; with an   *)
(* empty common batch shape it is invoked exactly once, on the whole        *)
(* arguments, and what is returned is the kernel's own output.              *)
C7_RowMajorInvocations ==
  /\ Len(batches) = Len(calls)
  /\ \A k \in 1..Len(calls) :
       /\ Len(calls[k]) = Len(batch_shape)
       /\ \A j \in 1..Len(batch_shape) :
            0 <= calls[k][j] /\ calls[k][j] < batch_shape[j]
       \* the k-th invocation is at the k-th coordinate in row-major order
       /\ RavelC(calls[k], batch_shape) = k - 1
       /\ batches[k] = _triangular_solve(
            [i \in 1..Len(xs) |-> ContractSlice(i, calls[k], batch_shapes[i])])
  /\ pc = "done" =>
       /\ Len(calls) = Prod(batch_shape)
       /\ ret.value.blocks = batches
       /\ batch_shape = <<>> =>
            /\ Len(calls) = 1
            /\ \A i \in 1..Len(xs) :
                 batches[1].f[i] = [arg |-> i, at |-> <<>>, shape |-> xs[i]]
            /\ ret.value = [shape |-> batches[1].shape, blocks |-> <<batches[1]>>]

\* A two-dimensional batch, where row-major and column-major order differ.
C7_Witness ==
  /\ pc = "done" /\ batch_shape = <<2, 2>>
  /\ calls = << <<0, 0>>, <<0, 1>>, <<1, 0>>, <<1, 1>> >>

(* C10: once _common_shape has succeeded, no enumerated coordinate fails to *)
(* translate against an argument's batch shape, and every translated        *)
(* component lies within the corresponding dimension of that batch shape.   *)
C10_TranslationInRange ==
  /\ ret.raised \notin {TranslateError, IndexError}
  /\ \A i \in 1..Len(translated) :
       /\ Len(translated[i]) = Len(batch_shapes[i])
       /\ \A j \in 1..Len(translated[i]) :
            0 <= translated[i][j] /\ translated[i][j] < batch_shapes[i][j]

\* A size-1 batch dimension read at 0 for a coordinate beyond it.
C10_Witness ==
  /\ pc = "loop" /\ batch_shapes = << <<2, 1>>, <<2>> >> /\ index = <<1, 1>>
  /\ translated = << <<1, 0>>, <<1>> >>

-----------------------------------------------------------------------------
(* abstract(promote, promote_from) and the wrapper it puts around a generic *)
(* operation.  A positional argument is known by its type.                  *)

Types == {"np.ndarray", "tf.Tensor", "tf.Variable", "torch.Tensor"}
Families == {"NPNumeric", "TFNumeric", "TorchNumeric"}

Family(t) ==
  IF t = "np.ndarray" THEN "NPNumeric"
  ELSE IF t \in {"tf.Tensor", "tf.Variable"} THEN "TFNumeric"
  ELSE "TorchNumeric"

\* The promotion rule of two families: the common family, or None where no
\* rule exists.
PromotionRule(f1, f2) ==
  IF f1 = f2 THEN Some(f1)
  ELSE IF f1 = "NPNumeric" THEN Some(f2)
  ELSE IF f2 = "NPNumeric" THEN Some(f1)
  ELSE None

\* convert(obj, family): an object of the family is left as it is.
Convert(t, f) ==
  IF Family(t) = f THEN t
  ELSE IF f = "TFNumeric" THEN "tf.Tensor"
  ELSE IF f = "TorchNumeric" THEN "torch.Tensor"
  ELSE "np.ndarray"

RECURSIVE CommonFamily(_, _)
CommonFamily(f, rest) ==
  IF rest = <<>> THEN Some(f)
  ELSE LET g == PromotionRule(f, Family(Head(rest))) IN
    IF g = None THEN None ELSE CommonFamily(g[1], Tail(rest))

\* plum.promote of the given objects: none or one is returned as given, two
\* or more are converted to their common family.
PlumPromote(objs) ==
  IF Len(objs) <= 1 THEN Returned(objs)
  ELSE LET f == CommonFamily(Family(objs[1]), Tail(objs)) IN
    IF f = None THEN Raised(PromotionTypeError)
    ELSE Returned([i \in 1..Len(objs) |-> Convert(objs[i], f[1])])

\* Lines 186-187: `promote` as the wrapper sees it.
EffectivePromote(p, pf) == IF p = None THEN pf ELSE p

\* Lines 193-198: the splitting index.
PromoteIndex_no_negative_case(p, n) ==
  IF p = None \/ p = Some(0) THEN 0
  ELSE p[1]

PromoteIndex(p, n) ==
  IF p = None \/ p = Some(0) THEN 0
  ELSE IF p[1] < 0 THEN n + 1
  ELSE p[1]

\* Line 212: the comparison that decides between failing and retrying.
TypesUnchanged_unchecked(before, after) == FALSE

TypesUnchanged(before, after) == before = after

\* Whether a registered implementation matches the arguments: one backend
\* registers the operation for arguments that are all of its own family.
Matches(registry, as) ==
  /\ Len(as) >= 1
  /\ \E f \in registry : \A i \in 1..Len(as) : Family(as[i]) = f

PromoteValues == {None} \cup {Some(k) : k \in -1..MaxArgs}

InitDispatch ==
  /\ pc = "abstract"
  /\ ret = Returned(<<>>)
  /\ promote \in PromoteValues
  /\ promote_from \in PromoteValues
  /\ impls \in SUBSET Families
  /\ args \in TuplesUpTo(Types, MaxArgs)
  /\ types_before = <<>> /\ types_after = <<>> /\ promoted = {} /\ retries = 0
  /\ AxisIdle /\ ShapeIdle /\ IndexIdle /\ BatchIdle

\* Lines 180-221: abstract(...) refuses both parameters, or returns the
\* decorator, which wraps the operation; the operation is then called.
Abstract ==
  /\ pc = "abstract"
  /\ IF promote # None /\ promote_from # None
     THEN pc' = "raised" /\ ret' = Raised(PromoteBothError)
     ELSE pc' = "call" /\ UNCHANGED ret
  /\ UNCHANGED <<axisVars, shapeVars, index, batch_shape, batchVars, dispVars>>

\* The call of the generic operation: a matching implementation runs, and
\* without one the call reaches the wrapper of the abstract function.
Dispatch ==
  /\ pc = "call"
  /\ IF Matches(impls, args)
     THEN pc' = "done" /\ ret' = Returned(args)
     ELSE pc' = "wrapper" /\ UNCHANGED ret
  /\ UNCHANGED <<axisVars, shapeVars, index, batch_shape, batchVars, dispVars>>

\* Lines 192-211: split the arguments, promote one part, record the types.
WrapperPromote ==
  /\ pc = "wrapper"
  /\ LET n == Len(args)
         promote_index == PromoteIndex(EffectivePromote(promote, promote_from), n)
         head == SliceTo(args, promote_index)
         tail == SliceFrom(args, promote_index)
         p == IF promote_from = None THEN PlumPromote(head) ELSE PlumPromote(tail)
     IN /\ types_before' = args
        /\ promoted' = IF promote_from = None THEN 1..Len(head)
                       ELSE (Len(head) + 1)..n
        /\ IF p.raised # ""
           THEN pc' = "raised" /\ ret' = p /\ UNCHANGED <<args, types_after>>
           ELSE /\ args' = IF promote_from = None THEN p.value \o tail
                           ELSE head \o p.value
                /\ types_after' = args'
                /\ pc' = "promoted"
                /\ UNCHANGED ret
  /\ UNCHANGED <<axisVars, shapeVars, index, batch_shape, batchVars, promote,
                 promote_from, impls, retries>>

\* Lines 212-217: fail when no type changed, call the operation again
\* otherwise.
WrapperRetry ==
  /\ pc = "promoted"
  /\ IF TypesUnchanged(types_before, types_after)
     THEN pc' = "raised" /\ ret' = Raised(NotFoundLookupError) /\ UNCHANGED retries
     ELSE /\ retries < MaxRetries
          /\ pc' = "call" /\ retries' = retries + 1 /\ UNCHANGED ret
  /\ UNCHANGED <<axisVars, shapeVars, index, batch_shape, batchVars, promote,
                 promote_from, impls, args, types_before, types_after, promoted>>

NextDispatch == Abstract \/ Dispatch \/ WrapperPromote \/ WrapperRetry

\* The call is synchronous and single-threaded: it keeps running until it
\* returns or raises.
SpecDispatch == InitDispatch /\ [][NextDispatch]_vars /\ WF_vars(NextDispatch)

-----------------------------------------------------------------------------
\* What holds of every state of a call, and of every step of it.
C5_Inv ==
  /\ retries <= 1
  /\ ret.raised = NotFoundLookupError => types_before = types_after
  /\ (pc = "call" /\ retries > 0) => types_before # types_after

C5_Step ==
  /\ (pc = "promoted" /\ types_before = types_after) =>
       (pc' = "raised" /\ ret'.raised = NotFoundLookupError /\ retries' = retries)
  /\ retries' # retries =>
       (pc = "promoted" /\ types_before # types_after /\ retries' = retries + 1)

(* C5: a call that reaches the wrapper fails at once with the               *)
(* no-matching-implementation error when promotion changed no argument      *)
(* type, and calls the operation again only when it changed one; so a call  *)
(* retries at most once and always ends.                                    *)
C5_SingleRetryTerminates ==
  /\ []C5_Inv
  /\ [][C5_Step]_vars
  /\ <>(pc \in {"done", "raised"})

\* A second pass through the wrapper, after a retry that found no
\* implementation: promotion changes nothing and the call fails.
C5_Witness ==
  /\ pc = "raised" /\ ret.raised = NotFoundLookupError /\ retries = 1
  /\ types_before = <<"tf.Tensor", "tf.Tensor">>

\* The positions the docstring of abstract says are promoted, of n arguments.
DocumentedPromoted(p, pf, n) ==
  IF pf = None
  THEN (IF p = None \/ p = Some(0) THEN {}
        ELSE IF p = Some(-1) THEN 1..n
        ELSE 1..Min(p[1], n))
  ELSE (IF pf = Some(0) THEN 1..n
        ELSE IF pf = Some(-1) THEN {}
        ELSE (pf[1] + 1)..n)

(* C9: the wrapper promotes exactly the arguments the docstring of abstract *)
(* names: promote = -1 all, None or 0 none, k > 0 the first k;              *)
(* promote_from = 0 all, -1 or None none, k > 0 those from index k on; the  *)
(* other arguments keep their values and positions; and giving both         *)
(* parameters raises a ValueError before any function is wrapped.           *)
C9_PromotesDocumentedArguments ==
  /\ (promote # None /\ promote_from # None) =>
       /\ pc \in {"abstract", "raised"}
       /\ pc = "raised" => ret.raised = PromoteBothError
       /\ types_before = <<>> /\ retries = 0
  /\ pc = "promoted" =>
       /\ promoted = DocumentedPromoted(promote, promote_from, Len(types_before))
       /\ Len(types_after) = Len(types_before)
       /\ \A i \in 1..Len(types_before) :
            i \notin promoted => types_after[i] = types_before[i]
       /\ \A i \in promoted :
            \A j \in promoted : Family(types_after[i]) = Family(types_after[j])

\* promote_from = 1 with two arguments: the second one alone is promoted.
C9_Witness ==
  /\ pc = "promoted" /\ promote = None /\ promote_from = Some(1)
  /\ types_before = <<"np.ndarray", "tf.Variable">> /\ promoted = {2}
  /\ types_after = types_before

=============================================================================
